---- MODULE Spec2Model ----
(***************************************************************************)
(* Model of utilities/ovs-p4ctl.py: the P4Runtime client session           *)
(* (P4RuntimeClient), the with_client wrapper that scopes it, the          *)
(* background stream receiver, the outbound request iterator, and the      *)
(* decoding of a failed Write into a P4RuntimeWriteException.              *)
(*                                                                         *)
(* Threads: the main thread (with_client and what it calls), the receiver  *)
(* thread (stream_recv_wrapper), the gRPC thread that drains               *)
(* stream_req_iterator, and the P4Runtime server as the environment.       *)
(* Time is a discrete clock that advances only while get_stream_packet is  *)
(* blocked in Queue.get; every other statement is instantaneous.           *)
(***************************************************************************)
EXTENDS Integers, Sequences, FiniteSets, TLC

\* ---------------------------------------------------------------- bounds
MaxMsgs == 2        \* messages the server sends on the stream
MaxOps == 1         \* client calls made by the wrapped command
MaxDetails == 2     \* length of the details list of a failed Write
MaxWait == 1        \* largest timeout a command passes to get_stream_packet
MaxBitwidth == 9    \* largest bitwidth of the numbers encoded

\* ------------------------------------------------------------- constants
HandshakeTimeout == 2
election_id == <<1, 0>>
DeviceIds == {7}
Types == {"arbitration", "packet"}
Codes == {"OK", "ALREADY_EXISTS"}

\* Python None on the queues and as a return value.
NoneMsg == [id |-> 0, tag |-> "None", code |-> "-"]
NoneReq == [tag |-> "None", device_id |-> 0, election_id |-> <<0, 0>>]

\* p4runtime_pb2.Error with no field set.
NoError == [any |-> "p4.Error", canonical_code |-> "-", message |-> ""]
DetailEntries ==
    { [any |-> "p4.Error", canonical_code |-> "OK", message |-> ""],
      [any |-> "p4.Error", canonical_code |-> "INVALID_ARGUMENT", message |-> "bad"],
      [any |-> "other", canonical_code |-> "-", message |-> ""] }
DetailLists == UNION { [1..n -> DetailEntries] : n \in 0..MaxDetails }
NoGrpcError == [code |-> "-", carrier |-> FALSE, details |-> <<>>]
\* The failures of a Write: any status with no carrier, UNKNOWN with any
\* details list, another status with a one-entry details list.
GrpcErrors ==
    [code : {"UNKNOWN", "UNAVAILABLE"}, carrier : {FALSE}, details : {<<>>}]
    \cup [code : {"UNKNOWN"}, carrier : {TRUE}, details : DetailLists]
    \cup [code : {"UNAVAILABLE"}, carrier : {TRUE},
          details : [1..1 -> {d \in DetailEntries : d.canonical_code # "OK"}]]

VARIABLES
    now,                \* time.time(), counted from the last return of get_stream_packet
    main_pc,            \* position of the main thread
    exc,                \* exception propagating out of with_client's try
    client,             \* with_client: is the local `client` bound
    device_id,          \* self.device_id
    channel,            \* self.channel: "none", "open", "closed"
    stream_out_q,       \* self.stream_out_q
    stream_in_q,        \* self.stream_in_q
    req_iter,           \* stream_req_iterator: "none", "running", "ended"
    sent,               \* requests yielded by stream_req_iterator
    stream,             \* self.stream: "none", "open", "ended", "failed"
    stream_recv_thread, \* "none", "running", "terminated"
    nput,               \* number of items ever put on stream_in_q
    nmsgs,              \* number of messages the server has sent
    deq,                \* items dequeued from stream_in_q, in order
    w_pc,               \* get_stream_packet: "idle", "poll", "get", "returned"
    w_type,             \* its type_ argument
    w_timeout,          \* its timeout argument
    w_start,            \* its local `start`
    w_deadline,         \* when the pending Queue.get raises queue.Empty
    w_from,             \* Len(deq) when the call began
    w_result,           \* its return value
    returned,           \* ids of the messages returned by any call
    rep,                \* handshake: the arbitration reply
    is_master,          \* handshake: is_master
    ops,                \* client calls made by the command so far
    rpcs,               \* unary requests handed to the stub
    grpc_error,         \* the grpc.RpcError of the failed Write
    it_pc,              \* P4RuntimeErrorIterator.__next__: "none", "loop", "unpacked"
    idx,                \* P4RuntimeErrorIterator.idx
    p4_error,           \* __next__: p4_error
    errors,             \* P4RuntimeWriteException.errors
    wr_result,          \* outcome of write/write_update
    tear_downs,         \* executions of tear_down
    channel_closes,     \* executions of channel.close()
    h_pc,               \* a call of a helper function: "idle", "ready", "done"
    h_fn,               \* the function called
    h_args,             \* its arguments
    h_ret,              \* its outcome
    updates,            \* the updates handed to client.write_update
    waiters,            \* the get_stream_packet of each of two threads
    taken               \* who took each item of deq, when, and who was waiting

sessvars == <<main_pc, exc, client, device_id, channel, is_master, rep, ops, rpcs,
              tear_downs, channel_closes>>
streamvars == <<stream_out_q, stream_in_q, req_iter, sent, stream,
                stream_recv_thread, nput, nmsgs>>
waitvars == <<now, deq, w_pc, w_type, w_timeout, w_start, w_deadline, w_from,
              w_result, returned>>
writevars == <<grpc_error, it_pc, idx, p4_error, errors, wr_result>>
sessionvars == <<sessvars, streamvars, waitvars, writevars>>
helpervars == <<h_pc, h_fn, h_args, h_ret, updates>>
pairvars == <<waiters, taken>>
auxvars == <<helpervars, pairvars>>
vars == <<sessionvars, auxvars>>

\* No helper function is being called.
NoArgs == [none |-> TRUE]
NoRet == [ok |-> FALSE, val |-> <<>>, err |-> "none"]
HelperIdle ==
    /\ h_pc = "idle"
    /\ h_fn = "none"
    /\ h_args = NoArgs
    /\ h_ret = NoRet
    /\ updates = <<>>
PairIdle ==
    /\ waiters = <<>>
    /\ taken = <<>>
AuxIdle == HelperIdle /\ PairIdle

\* The state of the process when ovs-p4ctl starts.
SessionInit ==
    /\ now = 0
    /\ main_pc = "start"
    /\ exc = "none"
    /\ client = FALSE
    /\ device_id = 0
    /\ channel = "none"
    /\ stream_out_q = <<>>
    /\ stream_in_q = <<>>
    /\ req_iter = "none"
    /\ sent = <<>>
    /\ stream = "none"
    /\ stream_recv_thread = "none"
    /\ nput = 0
    /\ nmsgs = 0
    /\ deq = <<>>
    /\ w_pc = "idle"
    /\ w_type = "arbitration"
    /\ w_timeout = 0
    /\ w_start = 0
    /\ w_deadline = 0
    /\ w_from = 0
    /\ w_result = NoneMsg
    /\ returned = {}
    /\ rep = NoneMsg
    /\ is_master = FALSE
    /\ ops = 0
    /\ rpcs = <<>>
    /\ grpc_error = NoGrpcError
    /\ it_pc = "none"
    /\ idx = 0
    /\ p4_error = NoError
    /\ errors = <<>>
    /\ wr_result = "none"
    /\ tear_downs = 0
    /\ channel_closes = 0

Init == SessionInit /\ AuxIdle

\* The outcome of a call: a returned value or a raised exception.
Return(v) == [ok |-> TRUE, val |-> v, err |-> "none"]
Raise(e) == [ok |-> FALSE, val |-> <<>>, err |-> e]

\* ------------------------------------------------------ session set-up

\* with_client, line 538: resolve_device_id_by_bridge_name(args[0]) returns a
\* device id or raises.
resolve_device_id_by_bridge_name ==
    /\ main_pc = "start"
    /\ \/ \E d \in DeviceIds : /\ device_id' = d
                               /\ main_pc' = "init"
                               /\ exc' = exc
       \/ /\ main_pc' = "finally"
          /\ exc' = "Exception"
          /\ UNCHANGED device_id
    /\ UNCHANGED <<client, channel, is_master, rep, ops, rpcs, tear_downs,
                   channel_closes, streamvars, waitvars, writevars>>
    /\ UNCHANGED auxvars

\* The arbitration request built by handshake.
ArbitrationRequest ==
    [tag |-> "arbitration", device_id |-> device_id, election_id |-> election_id]

\* P4RuntimeClient.__init__, lines 389-397: grpc.insecure_channel returns
\* the channel, or raises, which ends the constructor.
P4RuntimeClient_init ==
    /\ main_pc = "init"
    /\ \/ /\ channel' = "open"
          /\ main_pc' = "set_up_stream"
          /\ UNCHANGED exc
       \/ /\ main_pc' = "finally"
          /\ exc' = "Exception"
          /\ UNCHANGED channel
    /\ UNCHANGED <<client, device_id, is_master, rep, ops, rpcs, tear_downs,
                   channel_closes, streamvars, waitvars, writevars>>
    /\ UNCHANGED auxvars

\* set_up_stream, lines 400-428, and handshake, lines 430-439, up to the
\* call of get_stream_packet("arbitration", timeout=2).
set_up_stream ==
    /\ main_pc = "set_up_stream"
    /\ stream_out_q' = <<ArbitrationRequest>>
    /\ stream_in_q' = <<>>
    /\ req_iter' = "running"
    /\ stream' = "open"
    /\ stream_recv_thread' = "running"
    /\ main_pc' = "handshake"
    /\ w_pc' = "poll"
    /\ w_type' = "arbitration"
    /\ w_timeout' = HandshakeTimeout
    /\ w_start' = now
    /\ w_from' = Len(deq)
    /\ UNCHANGED <<exc, client, device_id, channel, is_master, rep, ops, rpcs,
                   tear_downs, channel_closes, sent, nput, nmsgs, now, deq,
                   w_deadline, w_result, returned, writevars>>
    /\ UNCHANGED auxvars

\* ------------------------------------------------- get_stream_packet

\* The budget never shrinks: the time already spent is not subtracted.
remaining_not_shrinking(timeout, start, t) == timeout

\* Line 453.
remaining(timeout, start, t) == timeout - (t - start)

\* Any message is taken to carry the type.
HasField_any(msg, type_) == msg.tag # "None"

\* Line 459: msg.HasField(type_).
HasField(msg, type_) == msg.tag = type_

\* Lines 453-456: compute the remaining budget, give up if it is negative,
\* otherwise enter stream_in_q.get(timeout=remaining).
get_stream_packet_poll ==
    /\ w_pc = "poll"
    /\ IF remaining(w_timeout, w_start, now) < 0
         THEN /\ w_pc' = "returned"
              /\ w_result' = NoneMsg
              /\ UNCHANGED w_deadline
         ELSE /\ w_pc' = "get"
              /\ w_deadline' = now + remaining(w_timeout, w_start, now)
              /\ UNCHANGED w_result
    /\ UNCHANGED <<now, deq, w_type, w_timeout, w_start, w_from, returned,
                   sessvars, streamvars, writevars>>
    /\ UNCHANGED auxvars

\* Lines 456-461: Queue.get hands over the oldest item.
get_stream_packet_get ==
    /\ w_pc = "get"
    /\ stream_in_q # <<>>
    /\ LET msg == Head(stream_in_q) IN
       /\ stream_in_q' = Tail(stream_in_q)
       /\ deq' = Append(deq, msg)
       /\ IF msg.tag = "None"
            THEN /\ w_pc' = "returned"
                 /\ w_result' = NoneMsg
                 /\ UNCHANGED returned
            ELSE IF ~HasField(msg, w_type)
              THEN /\ w_pc' = "poll"
                   /\ UNCHANGED <<w_result, returned>>
              ELSE /\ w_pc' = "returned"
                   /\ w_result' = msg
                   /\ returned' = returned \cup {msg.id}
    /\ UNCHANGED <<now, w_type, w_timeout, w_start, w_deadline, w_from,
                   sessvars, stream_out_q, req_iter, sent, stream,
                   stream_recv_thread, nput, nmsgs, writevars>>
    /\ UNCHANGED auxvars

\* Lines 462-464: Queue.get raises queue.Empty once its timeout has elapsed
\* with the queue still empty.
get_stream_packet_empty ==
    /\ w_pc = "get"
    /\ stream_in_q = <<>>
    /\ now >= w_deadline
    /\ w_pc' = "returned"
    /\ w_result' = NoneMsg
    /\ UNCHANGED <<now, deq, w_type, w_timeout, w_start, w_deadline, w_from,
                   returned, sessvars, streamvars, writevars>>
    /\ UNCHANGED auxvars

\* Time passes while Queue.get is blocked on an empty queue.
Tick ==
    /\ w_pc = "get"
    /\ stream_in_q = <<>>
    /\ now < w_deadline
    /\ now' = now + 1
    /\ UNCHANGED <<deq, w_pc, w_type, w_timeout, w_start, w_deadline, w_from,
                   w_result, returned, sessvars, streamvars, writevars>>
    /\ UNCHANGED auxvars

\* ------------------------------------------------------------ handshake

\* get_stream_packet has returned (lines 458, 461, 464): its frame, with
\* type_, timeout, start and msg, is gone.  The clock is read only as
\* time.time() - start (line 453), so its origin is moved to this return.
ReturnFrame ==
    /\ now' = 0
    /\ w_pc' = "idle"
    /\ w_type' = "arbitration"
    /\ w_timeout' = 0
    /\ w_start' = 0
    /\ w_deadline' = 0
    /\ w_from' = 0
    /\ w_result' = NoneMsg

\* Mastership is assumed whatever the reply says.
IsMaster_always(r) == r.tag = "arbitration"

\* Line 443.
IsMaster(r) == r.code = "OK"

\* handshake without the exit on a missing reply.
handshake_no_exit ==
    /\ main_pc = "handshake"
    /\ w_pc = "returned"
    /\ ReturnFrame
    /\ rep' = w_result
    /\ is_master' = IsMaster(w_result)
    /\ client' = TRUE
    /\ main_pc' = "in_f"
    /\ UNCHANGED <<exc, device_id, channel, ops, rpcs, tear_downs, channel_closes,
                   streamvars, deq, returned, writevars>>
    /\ UNCHANGED auxvars

\* Lines 439-447, after get_stream_packet has returned: no reply is fatal
\* (sys.exit(1) raises SystemExit inside the constructor, so with_client's
\* `client` is never bound); otherwise the constructor returns and
\* with_client binds `client`.  The frame of get_stream_packet is gone.
handshake ==
    /\ main_pc = "handshake"
    /\ w_pc = "returned"
    /\ ReturnFrame
    /\ rep' = w_result
    /\ IF w_result = NoneMsg
         THEN /\ main_pc' = "finally"
              /\ exc' = "SystemExit"
              /\ UNCHANGED <<client, is_master>>
         ELSE /\ is_master' = IsMaster(w_result)
              /\ client' = TRUE
              /\ main_pc' = "in_f"
              /\ UNCHANGED exc
    /\ UNCHANGED <<device_id, channel, ops, rpcs, tear_downs, channel_closes,
                   streamvars, deq, returned, writevars>>
    /\ UNCHANGED auxvars

\* ------------------------------------------------- stream threads

\* stream_req_iterator, lines 404-409, driven by the gRPC channel.
stream_req_iterator ==
    /\ req_iter = "running"
    /\ stream_out_q # <<>>
    /\ stream_out_q' = Tail(stream_out_q)
    /\ IF Head(stream_out_q).tag = "None"
         THEN /\ req_iter' = "ended"
              /\ UNCHANGED sent
         ELSE /\ sent' = Append(sent, Head(stream_out_q))
              /\ UNCHANGED req_iter
    /\ UNCHANGED <<stream_in_q, stream, stream_recv_thread, nput, nmsgs,
                   sessvars, waitvars, writevars>>
    /\ UNCHANGED auxvars

\* stream_recv, lines 414-415: the server sends a message and the receiver
\* puts it on stream_in_q.
stream_recv ==
    /\ stream_recv_thread = "running"
    /\ nmsgs < MaxMsgs
    /\ \E t \in Types, c \in Codes :
          /\ (t # "arbitration" => c = "OK")
          /\ stream_in_q' = Append(stream_in_q, [id |-> nput + 1, tag |-> t, code |-> c])
    /\ nput' = nput + 1
    /\ nmsgs' = nmsgs + 1
    /\ UNCHANGED <<stream_out_q, req_iter, sent, stream, stream_recv_thread,
                   sessvars, waitvars, writevars>>
    /\ UNCHANGED auxvars

\* The receiver ends on a transport failure without putting None.
stream_recv_error_silent ==
    /\ stream_recv_thread = "running"
    /\ stream' = "failed"
    /\ stream_recv_thread' = "terminated"
    /\ UNCHANGED <<stream_out_q, stream_in_q, req_iter, sent, nput, nmsgs,
                   sessvars, waitvars, writevars>>
    /\ UNCHANGED auxvars

\* stream_recv_wrapper, lines 416-421: iterating the stream raises
\* grpc.RpcError; the wrapper puts None on stream_in_q and the thread ends.
stream_recv_error ==
    /\ stream_recv_thread = "running"
    /\ stream_in_q' = Append(stream_in_q, [id |-> nput + 1, tag |-> "None", code |-> "-"])
    /\ nput' = nput + 1
    /\ stream' = "failed"
    /\ stream_recv_thread' = "terminated"
    /\ UNCHANGED <<stream_out_q, req_iter, sent, nmsgs, sessvars, waitvars,
                   writevars>>
    /\ UNCHANGED auxvars

\* stream_recv_wrapper, lines 414-417: the stream ends without error, the
\* for loop finishes and the thread ends.
stream_recv_end ==
    /\ stream_recv_thread = "running"
    /\ stream' = "ended"
    /\ stream_recv_thread' = "terminated"
    /\ UNCHANGED <<stream_out_q, stream_in_q, req_iter, sent, nput, nmsgs,
                   sessvars, waitvars, writevars>>
    /\ UNCHANGED auxvars

\* ------------------------------------------- operations of the command

\* The GetForwardingPipelineConfigRequest of lines 468-470: it has a device
\* id and a response type, and no election id.
GetForwardingPipelineConfigRequest ==
    [rpc |-> "GetForwardingPipelineConfig", device_id |-> device_id,
     response_type |-> "P4INFO_AND_COOKIE"]

\* get_p4info, lines 466-472, under parse_p4runtime_error (lines 148-155):
\* the RPC returns, or fails and P4RuntimeException is raised.
get_p4info ==
    /\ main_pc = "in_f"
    /\ ops < MaxOps
    /\ ops' = ops + 1
    /\ rpcs' = Append(rpcs, GetForwardingPipelineConfigRequest)
    /\ \/ UNCHANGED <<main_pc, exc>>
       \/ /\ main_pc' = "finally"
          /\ exc' = "P4RuntimeException"
    /\ UNCHANGED <<client, device_id, channel, is_master, rep, tear_downs,
                   channel_closes, streamvars, waitvars, writevars>>
    /\ UNCHANGED auxvars

\* The text of the P4Info file, as the names of the top-level fields it
\* sets, and the bytes of the device config file (lines 481-488).
SchemaTexts == { <<"tables", "actions">>, <<"tables", "bogus">> }
DeviceConfig == <<1, 2>>

\* google.protobuf.text_format.Merge(text, req.config.p4info), line 484: a
\* name that is no field of P4Info raises ParseError.
Merge(text) ==
    IF \E i \in 1..Len(text) : text[i] \notin {"tables", "actions"}
      THEN Raise("ParseError")
      ELSE Return([tables |-> Len(SelectSeq(text, LAMBDA f : f = "tables")),
                   actions |-> Len(SelectSeq(text, LAMBDA f : f = "actions"))])

\* The SetForwardingPipelineConfigRequest of lines 475-488.
SetForwardingPipelineConfigRequest(p4info, p4_device_config) ==
    [rpc |-> "SetForwardingPipelineConfig", device_id |-> device_id,
     election_id |-> election_id, action |-> "VERIFY_AND_COMMIT",
     config |-> [p4info |-> p4info, p4_device_config |-> p4_device_config]]

\* set_fwd_pipe_config that logs the ParseError and sends the request with
\* the P4Info left empty.
set_fwd_pipe_config_send_unparsed ==
    /\ main_pc = "in_f"
    /\ ops < MaxOps
    /\ ops' = ops + 1
    /\ \E text \in SchemaTexts :
          LET p4info == IF Merge(text).ok THEN Merge(text).val
                        ELSE [tables |-> 0, actions |-> 0]
          IN  /\ rpcs' = Append(rpcs, SetForwardingPipelineConfigRequest(p4info, DeviceConfig))
              /\ \/ UNCHANGED <<main_pc, exc>>
                 \/ /\ main_pc' = "finally"
                    /\ exc' = "P4RuntimeException"
    /\ UNCHANGED <<client, device_id, channel, is_master, rep, tear_downs,
                   channel_closes, streamvars, waitvars, writevars>>
    /\ UNCHANGED auxvars

\* set_fwd_pipe_config, lines 474-490: text_format.Merge raises ParseError
\* before the request is sent; otherwise the RPC returns or fails.
set_fwd_pipe_config ==
    /\ main_pc = "in_f"
    /\ ops < MaxOps
    /\ ops' = ops + 1
    /\ \E text \in SchemaTexts :
          LET p4info == Merge(text)
          IN  IF ~p4info.ok
                THEN /\ main_pc' = "finally"
                     /\ exc' = p4info.err
                     /\ UNCHANGED rpcs
                ELSE /\ rpcs' = Append(rpcs, SetForwardingPipelineConfigRequest(
                                                p4info.val, DeviceConfig))
                     /\ \/ UNCHANGED <<main_pc, exc>>
                        \/ /\ main_pc' = "finally"
                           /\ exc' = "P4RuntimeException"
    /\ UNCHANGED <<client, device_id, channel, is_master, rep, tear_downs,
                   channel_closes, streamvars, waitvars, writevars>>
    /\ UNCHANGED auxvars

\* The command calls get_stream_packet(type_, timeout).
call_get_stream_packet ==
    /\ main_pc = "in_f"
    /\ ops < MaxOps
    /\ ops' = ops + 1
    /\ main_pc' = "f_wait"
    /\ w_pc' = "poll"
    /\ \E t \in Types : w_type' = t
    /\ \E d \in 0..MaxWait : w_timeout' = d
    /\ w_start' = now
    /\ w_from' = Len(deq)
    /\ UNCHANGED <<exc, client, device_id, channel, is_master, rep, rpcs,
                   tear_downs, channel_closes, streamvars, now, deq, w_deadline,
                   w_result, returned, writevars>>
    /\ UNCHANGED auxvars

\* get_stream_packet has returned to the command, which carries on.
resume_command ==
    /\ main_pc = "f_wait"
    /\ w_pc = "returned"
    /\ ReturnFrame
    /\ main_pc' = "in_f"
    /\ UNCHANGED <<exc, client, device_id, channel, is_master, rep, ops, rpcs,
                   tear_downs, channel_closes, streamvars, deq, returned,
                   writevars>>
    /\ UNCHANGED auxvars

\* The command returns, or raises an exception of its own
\* (p4ctl_del_entry line 624, buildTableEntry, parse_flow).
command_ends ==
    /\ main_pc = "in_f"
    /\ main_pc' = "finally"
    /\ \/ exc' = "none"
       \/ exc' = "Exception"
    /\ UNCHANGED <<client, device_id, channel, is_master, rep, ops, rpcs,
                   tear_downs, channel_closes, streamvars, waitvars, writevars>>
    /\ UNCHANGED auxvars

\* ------------------------------------------------------------- Write

\* p4runtime_pb2.WriteRequest(), line 509: no field is set.
NewWriteRequest == [device_id |-> 0, election_id |-> <<0, 0>>, updates |-> <<>>]

\* The requests a caller hands to write: a fresh one with two updates, and
\* one on which the caller has set a device id and an election id.
WriteReqs ==
    { [NewWriteRequest EXCEPT !.updates = <<"INSERT", "MODIFY">>],
      [device_id |-> 9, election_id |-> <<2, 3>>, updates |-> <<"INSERT", "DELETE">>] }

\* write that leaves a device id and an election id set by the caller.
WriteRequest_keep_preset(req) ==
    [rpc |-> "Write",
     device_id |-> IF req.device_id # 0 THEN req.device_id ELSE device_id,
     election_id |-> IF req.election_id # <<0, 0>> THEN req.election_id ELSE election_id,
     updates |-> req.updates]

\* Lines 501-504 and 510-513: the device id and the election id of the
\* request are assigned from the client, whatever they were.
WriteRequest(req) ==
    [rpc |-> "Write", device_id |-> device_id, election_id |-> election_id,
     updates |-> req.updates]

\* Every failure is handed to P4RuntimeWriteException.
IsWriteError_always(e) == e.code # "-"

\* parse_p4runtime_write_error, line 142: is the failure handed to
\* P4RuntimeWriteException.
IsWriteError(e) == e.code = "UNKNOWN"

\* write_update, lines 507-515, under parse_p4runtime_write_error (lines
\* 136-145), up to the end of P4RuntimeErrorIterator.__init__ (lines 65-84).
write_update ==
    /\ main_pc = "in_f"
    /\ ops < MaxOps
    /\ ops' = ops + 1
    /\ rpcs' = Append(rpcs, WriteRequest([NewWriteRequest EXCEPT !.updates = <<"INSERT">>]))
    /\ \/ /\ wr_result' = "success"
          /\ UNCHANGED <<main_pc, exc, grpc_error, it_pc, idx, p4_error, errors>>
       \/ \E e \in GrpcErrors :
            /\ grpc_error' = e
            /\ errors' = <<>>
            /\ p4_error' = NoError
            /\ IF ~IsWriteError(e)
                 THEN /\ wr_result' = "RpcError"
                      /\ exc' = "RpcError"
                      /\ main_pc' = "finally"
                      /\ UNCHANGED <<it_pc, idx>>
                 ELSE IF ~e.carrier \/ Len(e.details) = 0
                   THEN /\ wr_result' = "P4RuntimeErrorFormatException"
                        /\ exc' = "P4RuntimeErrorFormatException"
                        /\ main_pc' = "finally"
                        /\ UNCHANGED <<it_pc, idx>>
                   ELSE /\ wr_result' = "decoding"
                        /\ main_pc' = "write_error"
                        /\ it_pc' = "loop"
                        /\ idx' = 0
                        /\ UNCHANGED exc
    /\ UNCHANGED <<client, device_id, channel, is_master, rep, tear_downs,
                   channel_closes, streamvars, waitvars>>
    /\ UNCHANGED auxvars

\* write, lines 499-505, under parse_p4runtime_write_error (lines 136-145),
\* up to the end of P4RuntimeErrorIterator.__init__ (lines 65-84): the
\* caller's request is sent with the client's device id and election id.
write ==
    /\ main_pc = "in_f"
    /\ ops < MaxOps
    /\ ops' = ops + 1
    /\ \E req \in WriteReqs : rpcs' = Append(rpcs, WriteRequest(req))
    /\ \/ /\ wr_result' = "success"
          /\ UNCHANGED <<main_pc, exc, grpc_error, it_pc, idx, p4_error, errors>>
       \/ \E e \in GrpcErrors :
            /\ grpc_error' = e
            /\ errors' = <<>>
            /\ p4_error' = NoError
            /\ IF ~IsWriteError(e)
                 THEN /\ wr_result' = "RpcError"
                      /\ exc' = "RpcError"
                      /\ main_pc' = "finally"
                      /\ UNCHANGED <<it_pc, idx>>
                 ELSE IF ~e.carrier \/ Len(e.details) = 0
                   THEN /\ wr_result' = "P4RuntimeErrorFormatException"
                        /\ exc' = "P4RuntimeErrorFormatException"
                        /\ main_pc' = "finally"
                        /\ UNCHANGED <<it_pc, idx>>
                   ELSE /\ wr_result' = "decoding"
                        /\ main_pc' = "write_error"
                        /\ it_pc' = "loop"
                        /\ idx' = 0
                        /\ UNCHANGED exc
    /\ UNCHANGED <<client, device_id, channel, is_master, rep, tear_downs,
                   channel_closes, streamvars, waitvars>>
    /\ UNCHANGED auxvars

\* Line 93: one_error_any.Unpack(p4_error).
Unpack(one_error_any) == one_error_any.any = "p4.Error"

\* P4RuntimeErrorIterator.__next__, lines 90-95, called by the for loop of
\* P4RuntimeWriteException.__init__ (line 111): the loop test, a fresh
\* p4_error, and the unpacking of the entry at idx.  StopIteration ends the
\* for loop and the P4RuntimeWriteException is raised (line 144).
iterator_unpack ==
    /\ main_pc = "write_error"
    /\ it_pc = "loop"
    /\ IF idx < Len(grpc_error.details)
         THEN IF ~Unpack(grpc_error.details[idx + 1])
                THEN /\ wr_result' = "P4RuntimeErrorFormatException"
                     /\ exc' = "P4RuntimeErrorFormatException"
                     /\ main_pc' = "finally"
                     /\ it_pc' = "none"
                     /\ UNCHANGED p4_error
                ELSE /\ p4_error' = grpc_error.details[idx + 1]
                     /\ it_pc' = "unpacked"
                     /\ UNCHANGED <<wr_result, exc, main_pc>>
         ELSE /\ wr_result' = "P4RuntimeWriteException"
              /\ exc' = "P4RuntimeWriteException"
              /\ main_pc' = "finally"
              /\ it_pc' = "none"
              /\ UNCHANGED p4_error
    /\ UNCHANGED <<client, device_id, channel, is_master, rep, ops, rpcs,
                   tear_downs, channel_closes, streamvars, waitvars, grpc_error,
                   idx, errors>>
    /\ UNCHANGED auxvars

\* P4RuntimeErrorIterator.__next__, lines 96-100: an OK entry takes
\* `continue`, any other is returned with its index and appended to
\* self.errors (line 112).
iterator_next ==
    /\ main_pc = "write_error"
    /\ it_pc = "unpacked"
    /\ it_pc' = "loop"
    /\ p4_error' = NoError
    /\ IF p4_error.canonical_code = "OK"
         THEN UNCHANGED <<idx, errors>>
         ELSE /\ errors' = Append(errors, <<idx, p4_error>>)
              /\ idx' = idx + 1
    /\ UNCHANGED <<sessvars, streamvars, waitvars, grpc_error, wr_result>>
    /\ UNCHANGED auxvars

\* ------------------------------------------------------------ tear-down

\* tear_down without the None on stream_out_q.
with_client_finally_no_sentinel ==
    /\ main_pc = "finally"
    /\ IF client
         THEN /\ tear_downs' = tear_downs + 1
              /\ main_pc' = "join"
         ELSE /\ main_pc' = "exited"
              /\ UNCHANGED tear_downs
    /\ UNCHANGED <<exc, client, device_id, channel, is_master, rep, ops, rpcs,
                   channel_closes, streamvars, waitvars, writevars>>
    /\ UNCHANGED auxvars

\* with_client, lines 542-544, and tear_down, lines 493-495 up to the join:
\* tear_down runs only if `client` was bound.
with_client_finally ==
    /\ main_pc = "finally"
    /\ IF client
         THEN /\ tear_downs' = tear_downs + 1
              /\ stream_out_q' = Append(stream_out_q, NoneReq)
              /\ main_pc' = "join"
         ELSE /\ main_pc' = "exited"
              /\ UNCHANGED <<tear_downs, stream_out_q>>
    /\ UNCHANGED <<exc, client, device_id, channel, is_master, rep, ops, rpcs,
                   channel_closes, stream_in_q, req_iter, sent, stream,
                   stream_recv_thread, nput, nmsgs, waitvars, writevars>>
    /\ UNCHANGED auxvars

\* tear_down that closes the channel without joining the receiver thread.
tear_down_no_join ==
    /\ main_pc = "join"
    /\ channel' = "closed"
    /\ channel_closes' = channel_closes + 1
    /\ main_pc' = "exited"
    /\ UNCHANGED <<exc, client, device_id, is_master, rep, ops, rpcs,
                   tear_downs, streamvars, waitvars, writevars>>
    /\ UNCHANGED auxvars

\* tear_down, lines 495-497: the join returns once the receiver thread has
\* ended, then the channel is closed.
tear_down ==
    /\ main_pc = "join"
    /\ stream_recv_thread = "terminated"
    /\ channel' = "closed"
    /\ channel_closes' = channel_closes + 1
    /\ main_pc' = "exited"
    /\ UNCHANGED <<exc, client, device_id, is_master, rep, ops, rpcs,
                   tear_downs, streamvars, waitvars, writevars>>
    /\ UNCHANGED auxvars

MainThread ==
    \/ resolve_device_id_by_bridge_name
    \/ P4RuntimeClient_init
    \/ set_up_stream
    \/ get_stream_packet_poll
    \/ get_stream_packet_get
    \/ get_stream_packet_empty
    \/ handshake
    \/ get_p4info
    \/ set_fwd_pipe_config
    \/ call_get_stream_packet
    \/ resume_command
    \/ command_ends
    \/ write_update
    \/ iterator_unpack
    \/ iterator_next
    \/ with_client_finally
    \/ tear_down

Next ==
    \/ MainThread
    \/ Tick
    \/ stream_req_iterator
    \/ stream_recv
    \/ stream_recv_error
    \/ stream_recv_end

Spec == Init /\ [][Next]_vars

\* The main thread keeps running, time passes, the gRPC thread keeps
\* draining stream_req_iterator, and the server ends the inbound stream once
\* the outbound one has ended.
FairSpec ==
    /\ Spec
    /\ WF_vars(MainThread)
    /\ WF_vars(Tick)
    /\ WF_vars(stream_req_iterator)
    /\ WF_vars(stream_recv_end /\ req_iter = "ended")

\* No command of ovs-p4ctl calls write (add-entry calls write_update, line
\* 619); a caller of P4RuntimeClient may, between the handshake and the
\* tear-down as any other operation.
ClientNext ==
    \/ Next
    \/ write

ClientSpec == Init /\ [][ClientNext]_vars


\* ====================================================== value encoding

\* A Python str is a sequence of one-character strings, a bytes object a
\* sequence of numbers in 0..255.
HexChars == <<"0", "1", "2", "3", "4", "5", "6", "7", "8", "9",
              "a", "b", "c", "d", "e", "f">>
DecChars == <<"0", "1", "2", "3", "4", "5", "6", "7", "8", "9">>
UpperHex == <<"A", "B", "C", "D", "E", "F">>
IsHexChar(c) == (\E i \in 1..16 : HexChars[i] = c) \/ (\E i \in 1..6 : UpperHex[i] = c)
IsDecChar(c) == \E i \in 1..10 : DecChars[i] = c
HexVal(c) == IF \E i \in 1..16 : HexChars[i] = c
               THEN (CHOOSE i \in 1..16 : HexChars[i] = c) - 1
               ELSE (CHOOSE i \in 1..6 : UpperHex[i] = c) + 9

\* '%x' % number, for number >= 0 (line 183).
RECURSIVE HexStr(_)
HexStr(n) == IF n < 16 THEN <<HexChars[n + 1]>>
             ELSE HexStr(n \div 16) \o <<HexChars[(n % 16) + 1]>>

\* '0' * k: the empty string when k <= 0 (line 186).
Zeros(k) == [i \in 1..k |-> "0"]

\* codecs.decode(val, 'hex_codec') (lines 163, 187).
hex_decode(val) ==
    IF \E i \in 1..Len(val) : ~IsHexChar(val[i]) THEN Raise("binascii.Error")
    ELSE IF Len(val) % 2 # 0 THEN Raise("binascii.Error")
    ELSE Return([i \in 1..(Len(val) \div 2) |->
                    HexVal(val[2 * i - 1]) * 16 + HexVal(val[2 * i])])

\* bitwidthToBytes, lines 178-179.
bitwidthToBytes(bitwidth) == (bitwidth + 7) \div 8

\* encodeNum that accepts number = 2 ** bitwidth.
encodeNum_off_by_one(number, bitwidth) ==
    IF number > 2 ^ bitwidth THEN Raise("Exception")
    ELSE hex_decode(Zeros(bitwidthToBytes(bitwidth) * 2 - Len(HexStr(number)))
                    \o HexStr(number))

\* encodeNum that pads to bitwidth / 8 bytes, rounded down.
encodeNum_short_pad(number, bitwidth) ==
    IF number >= 2 ^ bitwidth THEN Raise("Exception")
    ELSE hex_decode(Zeros((bitwidth \div 8) * 2 - Len(HexStr(number)))
                    \o HexStr(number))

\* encodeNum, lines 181-187.
encodeNum(number, bitwidth) ==
    LET byte_len == bitwidthToBytes(bitwidth)
        num_str == HexStr(number)
    IN  IF number >= 2 ^ bitwidth THEN Raise("Exception")
        ELSE hex_decode(Zeros(byte_len * 2 - Len(num_str)) \o num_str)

\* decodeNum, lines 189-190: int(hex digits of the bytes, 16).
RECURSIVE decodeNum(_)
decodeNum(encoded_number) ==
    IF Len(encoded_number) = 0 THEN 0
    ELSE decodeNum(SubSeq(encoded_number, 1, Len(encoded_number) - 1)) * 256
         + encoded_number[Len(encoded_number)]

\* matchesMac, lines 157-159.
matchesMac(s) ==
    /\ Len(s) = 17
    /\ \A i \in 1..17 : IF i % 3 = 0 THEN s[i] = ":" ELSE IsHexChar(s[i])

\* encodeMac, lines 161-163.
encodeMac(s) == hex_decode(SelectSeq(s, LAMBDA c : c # ":"))

\* The strings split at the dots.
RECURSIVE SplitDots(_)
SplitDots(s) ==
    IF \A i \in 1..Len(s) : s[i] # "."
      THEN <<s>>
      ELSE LET d == CHOOSE i \in 1..Len(s) : s[i] = "." /\ \A j \in 1..(i - 1) : s[j] # "."
           IN  <<SubSeq(s, 1, d - 1)>> \o SplitDots(SubSeq(s, d + 1, Len(s)))

\* matchesIPv4, lines 168-170.
matchesIPv4(s) ==
    LET parts == SplitDots(s)
    IN  /\ Len(parts) = 4
        /\ \A p \in 1..4 : /\ Len(parts[p]) \in 1..3
                           /\ \A i \in 1..Len(parts[p]) : IsDecChar(parts[p][i])

\* The number written in decimal digits.
RECURSIVE DecVal(_)
DecVal(s) == IF Len(s) = 0 THEN 0
             ELSE DecVal(SubSeq(s, 1, Len(s) - 1)) * 10 + HexVal(s[Len(s)])

\* encodeIPv4, lines 172-173: socket.inet_aton of a dotted quad of decimal
\* numbers; a number above 255 raises OSError.
encodeIPv4(s) ==
    LET parts == SplitDots(s)
    IN  IF \E p \in 1..4 : DecVal(parts[p]) > 255 THEN Raise("OSError")
        ELSE Return([p \in 1..4 |-> DecVal(parts[p])])

\* A Python value passed to encode: wrap says whether it is the scalar
\* itself or a list or tuple of len copies of it; the scalar is a str (s),
\* an int (n) or a float.
Value(wrap, len, type, n, s) == [wrap |-> wrap, len |-> len, type |-> type, n |-> n, s |-> s]

\* encode without its assertion on the length.
encode_no_assert(x, bitwidth) ==
    IF x.wrap # "none" /\ x.len # 1 THEN Raise("Exception")
    ELSE IF x.type = "str"
      THEN IF matchesMac(x.s) THEN encodeMac(x.s)
           ELSE IF matchesIPv4(x.s) THEN encodeIPv4(x.s)
           ELSE Return(x.s)
    ELSE IF x.type = "int" THEN encodeNum(x.n, bitwidth)
    ELSE Raise("Exception")

\* encode, lines 192-211.
encode(x, bitwidth) ==
    LET byte_len == bitwidthToBytes(bitwidth)
        encoded_bytes ==
            IF x.type = "str"
              THEN IF matchesMac(x.s) THEN encodeMac(x.s)
                   ELSE IF matchesIPv4(x.s) THEN encodeIPv4(x.s)
                   ELSE Return(x.s)
            ELSE IF x.type = "int" THEN encodeNum(x.n, bitwidth)
            ELSE Raise("Exception")
    IN  IF x.wrap # "none" /\ x.len # 1 THEN Raise("Exception")
        ELSE IF ~encoded_bytes.ok THEN encoded_bytes
        ELSE IF Len(encoded_bytes.val) # byte_len THEN Raise("AssertionError")
        ELSE encoded_bytes

\* ======================================================= P4InfoHelper

\* Python None as a name and as an id.
NoneName == "<None>"
NoneId == 0 - 1
\* `if name:` (lines 223, 230): None and '' are false.
Truthy(name) == name \notin {NoneName, ""}

\* The P4Info messages the helper is built from.
MatchFieldPb(id, name, bitwidth, match_type) ==
    [id |-> id, name |-> name, bitwidth |-> bitwidth, match_type |-> match_type]
ParamPb(id, name, bitwidth) == [id |-> id, name |-> name, bitwidth |-> bitwidth]
Preamble(id, name, alias) == [id |-> id, name |-> name, alias |-> alias]
Table1 == [preamble |-> Preamble(1, "ingress.t1", "t1"),
           match_fields |-> << MatchFieldPb(1, "ipv4.dst", 32, "EXACT"),
                               MatchFieldPb(2, "vlan", 9, "LPM") >>]
Table2 == [preamble |-> Preamble(2, "t2", "t2"),
           match_fields |-> << MatchFieldPb(1, "vlan", 8, "TERNARY"),
                               MatchFieldPb(2, "port", 9, "RANGE"),
                               MatchFieldPb(3, "opt", 8, "OPTIONAL"),
                               MatchFieldPb(4, "tag", 8, "EXACT") >>]
Action1 == [preamble |-> Preamble(11, "ingress.fwd", "fwd"),
            params |-> << ParamPb(1, "port", 9), ParamPb(2, "ttl", 8) >>]
Action2 == [preamble |-> Preamble(12, "drop", "drop"), params |-> <<>>]
P4Infos ==
    { [tables |-> <<Table1, Table2>>, actions |-> <<Action1, Action2>>],
      [tables |-> <<Table1, Table2>>, actions |-> <<>>],
      [tables |-> <<>>, actions |-> <<Action1, Action2>>],
      [tables |-> <<>>, actions |-> <<>>] }

\* getattr(self.p4info, entity_type), line 221.
Entities(p4info, entity_type) ==
    IF entity_type = "tables" THEN p4info.tables ELSE p4info.actions

\* The least number of a non-empty set of numbers: the first hit of a scan.
First(S) == CHOOSE i \in S : \A j \in S : i <= j

\* P4InfoHelper.get, lines 217-233.
get(p4info, entity_type, name, id) ==
    LET coll == Entities(p4info, entity_type)
        hits == { i \in 1..Len(coll) :
                    IF Truthy(name)
                      THEN coll[i].preamble.name = name \/ coll[i].preamble.alias = name
                      ELSE coll[i].preamble.id = id }
    IN  IF name # NoneName /\ id # NoneId THEN Raise("AssertionError")
        ELSE IF hits # {} THEN Return(coll[First(hits)])
        ELSE Raise("AttributeError")

\* get_id, lines 235-236, reached through get_tables_id / get_actions_id
\* (lines 244-250).
get_id(p4info, entity_type, name) ==
    LET o == get(p4info, entity_type, name, NoneId)
    IN  IF o.ok THEN Return(o.val.preamble.id) ELSE o

\* The first entry of fields that the name, or else the id, selects
\* (lines 265-271, 333-339); 0 if there is none.
FieldHit(fields, name, id) ==
    LET hits == { j \in 1..Len(fields) :
                    IF name # NoneName THEN fields[j].name = name
                    ELSE id # NoneId /\ fields[j].id = id }
    IN  IF hits = {} THEN 0 ELSE First(hits)

\* get_match_field, lines 261-272.
get_match_field(p4info, table_name, name, id) ==
    LET hits == { i \in 1..Len(p4info.tables) :
                    /\ p4info.tables[i].preamble.name = table_name
                    /\ FieldHit(p4info.tables[i].match_fields, name, id) # 0 }
    IN  IF hits # {}
          THEN LET t == p4info.tables[First(hits)]
               IN  Return(t.match_fields[FieldHit(t.match_fields, name, id)])
          ELSE Raise("AttributeError")

\* get_action_params, lines 323-327: None when no action has the name.
get_action_params(p4info, action_name) ==
    LET hits == { i \in 1..Len(p4info.actions) :
                    p4info.actions[i].preamble.name = action_name }
    IN  IF hits # {} THEN Return(p4info.actions[First(hits)].params)
        ELSE Raise("None")

\* get_action_param, lines 329-340.  The message of the AttributeError
\* reads a.params: with no action in the schema `a` was never bound.
get_action_param(p4info, action_name, name, id) ==
    LET hits == { i \in 1..Len(p4info.actions) :
                    /\ p4info.actions[i].preamble.name = action_name
                    /\ FieldHit(p4info.actions[i].params, name, id) # 0 }
    IN  IF hits # {}
          THEN LET a == p4info.actions[First(hits)]
               IN  Return(a.params[FieldHit(a.params, name, id)])
        ELSE IF Len(p4info.actions) = 0 THEN Raise("UnboundLocalError")
        ELSE Raise("AttributeError")

\* A pair (a, b) given as the value of a match field: a tuple of length 2,
\* kept as its first element and its second.
Pair(a, b) == [wrap |-> "tuple", len |-> 2, type |-> a.type, n |-> a.n, s |-> a.s,
               second |-> b]

\* value[i] for i in {0, 1} (lines 294-303): a character of a str, an
\* element of a list or tuple, TypeError for a number.
Index(value, i) ==
    IF value.wrap = "none"
      THEN IF value.type # "str" THEN Raise("TypeError")
           ELSE IF Len(value.s) <= i THEN Raise("IndexError")
           ELSE Return(Value("none", 0, "str", 0, <<value.s[i + 1]>>))
    ELSE IF value.len <= i THEN Raise("IndexError")
    ELSE IF i = 1 THEN Return(value.second)
    ELSE Return(Value("none", 0, value.type, value.n, value.s))

\* field = encode(x, bitwidth) for a bytes field of a protobuf message
\* (lines 291-303, 352): a str that encode passed through is not bytes.
BytesField(x, bitwidth) ==
    LET e == encode(x, bitwidth)
    IN  IF ~e.ok THEN e
        ELSE IF x.type = "str" /\ ~matchesMac(x.s) /\ ~matchesIPv4(x.s) THEN Raise("TypeError")
        ELSE e

\* p4runtime_pb2.FieldMatch with the one variant that is set.
FieldMatch(field_id, variant, a, b) ==
    [field_id |-> field_id, variant |-> variant, a |-> a, b |-> b]

\* The two-part variants: value[0] and value[1] are encoded in turn.
TwoBytesFields(field_id, variant, value, bitwidth) ==
    LET i0 == Index(value, 0)
        b0 == BytesField(i0.val, bitwidth)
        i1 == Index(value, 1)
        b1 == BytesField(i1.val, bitwidth)
    IN  IF ~i0.ok THEN i0
        ELSE IF ~b0.ok THEN b0
        ELSE IF ~i1.ok THEN i1
        ELSE IF ~b1.ok THEN b1
        ELSE Return(FieldMatch(field_id, variant, b0.val, b1.val))

\* get_match_field_pb that sets the ternary variant for a RANGE field.
get_match_field_pb_range_as_ternary(p4info, table_name, match_field_name, value) ==
    LET p4info_match == get_match_field(p4info, table_name, match_field_name, NoneId)
    IN  IF ~p4info_match.ok THEN p4info_match
        ELSE IF p4info_match.val.match_type \in {"TERNARY", "RANGE"}
          THEN TwoBytesFields(p4info_match.val.id, "ternary", value, p4info_match.val.bitwidth)
        ELSE Raise("Exception")

\* get_match_field_pb, lines 283-306.
get_match_field_pb(p4info, table_name, match_field_name, value) ==
    LET p4info_match == get_match_field(p4info, table_name, match_field_name, NoneId)
        bitwidth == p4info_match.val.bitwidth
        field_id == p4info_match.val.id
        match_type == p4info_match.val.match_type
        exact == BytesField(value, bitwidth)
        i0 == Index(value, 0)
        b0 == BytesField(i0.val, bitwidth)
        i1 == Index(value, 1)
    IN  IF ~p4info_match.ok THEN p4info_match
        ELSE IF match_type = "EXACT"
          THEN IF exact.ok THEN Return(FieldMatch(field_id, "exact", exact.val, <<>>))
               ELSE exact
        ELSE IF match_type = "LPM"
          THEN IF ~i0.ok THEN i0
               ELSE IF ~b0.ok THEN b0
               ELSE IF ~i1.ok THEN i1
               ELSE IF i1.val.type # "int" THEN Raise("TypeError")
               ELSE Return(FieldMatch(field_id, "lpm", b0.val, i1.val.n))
        ELSE IF match_type = "TERNARY"
          THEN TwoBytesFields(field_id, "ternary", value, bitwidth)
        ELSE IF match_type = "RANGE"
          THEN TwoBytesFields(field_id, "range", value, bitwidth)
        ELSE Raise("Exception")

\* get_action_param_pb, lines 348-353.
get_action_param_pb(p4info, action_name, param_name, value) ==
    LET p4info_param == get_action_param(p4info, action_name, param_name, NoneId)
        e == BytesField(value, p4info_param.val.bitwidth)
    IN  IF ~p4info_param.ok THEN p4info_param
        ELSE IF ~e.ok THEN e
        ELSE Return([param_id |-> p4info_param.val.id, value |-> e.val])

\* priority=None (line 361).
NonePriority == 0 - 1
\* A p4runtime_pb2.TableEntry with no field set (line 362).
TableEntry == [table_id |-> 0, priority |-> 0, match |-> <<>>,
               is_default_action |-> FALSE,
               action |-> [action_id |-> 0, params |-> <<>>]]

\* [f(name, value) for name, value in fields.items()] (lines 369-372,
\* 381-384), rs being the outcome of f on each item in the order of the
\* dict: the first exception ends the list.
Comprehension(rs) ==
    LET bad == { i \in 1..Len(rs) : ~rs[i].ok }
    IN  IF bad # {} THEN rs[First(bad)]
        ELSE Return([i \in 1..Len(rs) |-> rs[i].val])

\* The table entry of lines 362-385 from the outcomes of its parts, in the
\* order they are made: the first exception is the outcome.
table_entry(table_id, match, action_id, params, default_action, priority) ==
    IF ~table_id.ok THEN table_id
    ELSE IF ~match.ok THEN match
    ELSE IF ~action_id.ok THEN action_id
    ELSE IF ~params.ok THEN params
    ELSE Return([TableEntry EXCEPT
                   !.table_id = table_id.val,
                   !.priority = IF priority # NonePriority THEN priority ELSE 0,
                   !.match = match.val,
                   !.is_default_action = default_action,
                   !.action = [action_id |-> action_id.val, params |-> params.val]])

\* buildTableEntry that leaves out the match fields it cannot build.
buildTableEntry_skip_failed(p4info, table_name, match_fields, default_action, action_name, action_params, priority) ==
    table_entry(
        get_id(p4info, "tables", table_name),
        Comprehension(SelectSeq([i \in 1..Len(match_fields) |->
            get_match_field_pb(p4info, table_name, match_fields[i][1], match_fields[i][2])],
            LAMBDA r : r.ok)),
        IF Truthy(action_name) THEN get_id(p4info, "actions", action_name) ELSE Return(0),
        IF Truthy(action_name)
          THEN Comprehension([i \in 1..Len(action_params) |->
                 get_action_param_pb(p4info, action_name,
                                     action_params[i][1], action_params[i][2])])
          ELSE Return(<<>>),
        default_action, priority)

\* buildTableEntry, lines 355-385: without an action_name the action of
\* the entry stays unset.
buildTableEntry(p4info, table_name, match_fields, default_action, action_name, action_params, priority) ==
    table_entry(
        get_id(p4info, "tables", table_name),
        Comprehension([i \in 1..Len(match_fields) |->
            get_match_field_pb(p4info, table_name, match_fields[i][1], match_fields[i][2])]),
        IF Truthy(action_name) THEN get_id(p4info, "actions", action_name) ELSE Return(0),
        IF Truthy(action_name)
          THEN Comprehension([i \in 1..Len(action_params) |->
                 get_action_param_pb(p4info, action_name,
                                     action_params[i][1], action_params[i][2])])
          ELSE Return(<<>>),
        default_action, priority)

\* The action_params of p4ctl_add_entry, lines 612-614: a.name ->
\* action_data[idx] for the params of the action; enumerate(None) raises
\* TypeError, a missing action_data[idx] IndexError.
ActionParams(p4info, action, action_data) ==
    LET ps == get_action_params(p4info, action)
    IN  IF ~ps.ok THEN Raise("TypeError")
        ELSE IF Len(action_data) < Len(ps.val) THEN Raise("IndexError")
        ELSE Return([k \in 1..Len(ps.val) |->
                        <<ps.val[k].name, Value("none", 0, "int", action_data[k], <<>>)>>])

\* ------------------------------------------- calls of the value encoding

\* The texts and numbers handed to encode.
MacText == <<"a", "a", ":", "B", "B", ":", "c", "c", ":", "d", "d", ":", "e", "e", ":", "f", "f">>
IPv4Text == <<"1", "0", ".", "1", "0", ".", "1", "0", ".", "1", "0">>
BadIPv4Text == <<"9", "9", "9", ".", "1", ".", "1", ".", "1">>
Texts == { MacText, IPv4Text, BadIPv4Text, <<>>, <<"a">>, <<"a", "b">>,
           <<"a", "b", "c", "d">>, <<"1", ".", "2", ".", "3">> }
TextBitwidths == (1..MaxBitwidth) \cup {32, 48}
Wraps == { <<"none", 0>>, <<"list", 1>>, <<"tuple", 1>>, <<"list", 0>>, <<"tuple", 2>> }
Numbers(bitwidth) == 0..(2 ^ bitwidth + 1)

\* encodeNum(number, bitwidth) is called.
call_encodeNum ==
    /\ h_pc = "ready"
    /\ \E bitwidth \in 1..MaxBitwidth : \E number \in Numbers(bitwidth) :
          /\ h_args' = [number |-> number, bitwidth |-> bitwidth]
          /\ h_ret' = encodeNum(number, bitwidth)
    /\ h_fn' = "encodeNum"
    /\ h_pc' = "done"
    /\ UNCHANGED <<updates, sessionvars, pairvars>>

\* decodeNum is called on what encodeNum(number, bitwidth) returned.
call_decodeNum ==
    /\ h_pc = "ready"
    /\ \E bitwidth \in 1..MaxBitwidth : \E number \in Numbers(bitwidth) :
          /\ encodeNum(number, bitwidth).ok
          /\ h_args' = [number |-> number, bitwidth |-> bitwidth,
                        encoded_number |-> encodeNum(number, bitwidth).val]
          /\ h_ret' = Return(decodeNum(encodeNum(number, bitwidth).val))
    /\ h_fn' = "decodeNum"
    /\ h_pc' = "done"
    /\ UNCHANGED <<updates, sessionvars, pairvars>>

\* encode(x, bitwidth) is called.
call_encode ==
    /\ h_pc = "ready"
    /\ \E w \in Wraps :
          \/ \E s \in Texts, bitwidth \in TextBitwidths :
                /\ h_args' = [x |-> Value(w[1], w[2], "str", 0, s), bitwidth |-> bitwidth]
                /\ h_ret' = encode(Value(w[1], w[2], "str", 0, s), bitwidth)
          \/ \E bitwidth \in 1..MaxBitwidth : \E n \in Numbers(bitwidth) :
                /\ h_args' = [x |-> Value(w[1], w[2], "int", n, <<>>), bitwidth |-> bitwidth]
                /\ h_ret' = encode(Value(w[1], w[2], "int", n, <<>>), bitwidth)
          \/ \E bitwidth \in 1..MaxBitwidth :
                /\ h_args' = [x |-> Value(w[1], w[2], "float", 0, <<>>), bitwidth |-> bitwidth]
                /\ h_ret' = encode(Value(w[1], w[2], "float", 0, <<>>), bitwidth)
    /\ h_fn' = "encode"
    /\ h_pc' = "done"
    /\ UNCHANGED <<updates, sessionvars, pairvars>>

\* -------------------------------------------- calls of the P4InfoHelper

\* The names, ids and values the helper is called with.
EntityNames == {NoneName, "", "ingress.t1", "t1", "t2", "ingress.fwd", "fwd", "nosuch"}
EntityIds == {NoneId, 1, 2, 11, 99}
TableNames == {"ingress.t1", "t1", "t2", "nosuch"}
ActionNames == {"ingress.fwd", "fwd", "drop", "nosuch"}
FieldNames == {NoneName, "ipv4.dst", "vlan", "port", "opt", "tag", "nosuch"}
FieldIds == {NoneId, 1, 2, 4, 9}
ParamNames == {NoneName, "port", "ttl", "nosuch"}
ParamIds == {NoneId, 1, 2, 9}
Num(n) == Value("none", 0, "int", n, <<>>)
Text(s) == Value("none", 0, "str", 0, s)
TextValues == { Text(IPv4Text), Text(MacText), Text(<<"a", "b", "c", "d">>),
                Pair(Text(IPv4Text), Text(IPv4Text)), Pair(Text(IPv4Text), Num(24)) }
SmallValues == { Num(0), Num(255), Num(256), Num(600), Text(<<"a">>), Text(<<"a", "b">>),
                 Value("list", 1, "int", 5, <<>>), Value("none", 0, "float", 0, <<>>),
                 Pair(Num(1), Num(255)), Pair(Num(1), Num(7)), Pair(Num(600), Num(1)),
                 Pair(Num(1), Num(600)), Pair(Num(1), Text(<<"a">>)),
                 Pair(Text(IPv4Text), Num(24)) }
\* A field of 32 bits is given texts only: 2 ** 32 is not a number here.
MatchInputs == ({"ipv4.dst"} \X TextValues)
                 \cup ({"vlan", "port", "opt", "tag", "nosuch"} \X SmallValues)

\* The match_fields and (action_name, action_params) given to
\* buildTableEntry, each dict as its (name, value) items in order.
MatchFieldDicts ==
    { <<>>,
      << <<"ipv4.dst", Text(IPv4Text)>> >>,
      << <<"vlan", Pair(Num(1), Num(7))>> >>,
      << <<"tag", Num(5)>> >>,
      << <<"tag", Num(256)>> >>,
      << <<"opt", Num(1)>> >>,
      << <<"nosuch", Num(1)>> >>,
      << <<"ipv4.dst", Text(IPv4Text)>>, <<"vlan", Pair(Num(1), Num(7))>> >>,
      << <<"vlan", Pair(Num(1), Num(7))>>, <<"port", Pair(Num(1), Num(2))>> >>,
      << <<"port", Pair(Num(1), Num(2))>>, <<"tag", Num(5)>> >>,
      << <<"tag", Num(5)>>, <<"opt", Num(1)>> >>,
      << <<"ipv4.dst", Text(IPv4Text)>>, <<"nosuch", Num(1)>> >>,
      << <<"nosuch", Num(1)>>, <<"ipv4.dst", Text(IPv4Text)>> >> }
ActionInputs ==
    { <<NoneName, <<>>>>,
      <<"ingress.fwd", <<>>>>,
      <<"ingress.fwd", << <<"port", Num(1)>>, <<"ttl", Num(2)>> >> >>,
      <<"ingress.fwd", << <<"port", Num(600)>> >> >>,
      <<"ingress.fwd", << <<"port", Num(1)>>, <<"nosuch", Num(1)>> >> >>,
      <<"fwd", << <<"port", Num(1)>> >> >>,
      <<"drop", <<>>>>,
      <<"nosuch", <<>>>> }
\* The match_keys and action_data that parse_flow hands to p4ctl_add_entry:
\* the values of the keys are texts, the action data numbers.
MatchKeyDicts ==
    { <<>>,
      << <<"ipv4.dst", Text(IPv4Text)>> >>,
      << <<"ipv4.dst", Text(<<"a">>)>> >>,
      << <<"tag", Text(<<"a">>)>> >>,
      << <<"tag", Text(IPv4Text)>> >>,
      << <<"vlan", Text(IPv4Text)>> >>,
      << <<"nosuch", Text(IPv4Text)>> >>,
      << <<"ipv4.dst", Text(IPv4Text)>>, <<"tag", Text(<<"a">>)>> >>,
      << <<"ipv4.dst", Text(IPv4Text)>>, <<"nosuch", Text(IPv4Text)>> >>,
      << <<"nosuch", Text(IPv4Text)>>, <<"ipv4.dst", Text(IPv4Text)>> >> }
ActionData == { <<1>>, <<1, 2>>, <<600, 1>> }

\* helper.get(entity_type, name, id) is called.
call_get ==
    /\ h_pc = "ready"
    /\ \E p4info \in P4Infos, entity_type \in {"tables", "actions"},
          name \in EntityNames, id \in EntityIds :
          /\ h_args' = [p4info |-> p4info, entity_type |-> entity_type,
                        name |-> name, id |-> id]
          /\ h_ret' = get(p4info, entity_type, name, id)
    /\ h_fn' = "get"
    /\ h_pc' = "done"
    /\ UNCHANGED <<updates, sessionvars, pairvars>>

\* helper.get_match_field(table_name, name, id) is called.
call_get_match_field ==
    /\ h_pc = "ready"
    /\ \E p4info \in P4Infos, table_name \in TableNames,
          name \in FieldNames, id \in FieldIds :
          /\ h_args' = [p4info |-> p4info, table_name |-> table_name,
                        name |-> name, id |-> id]
          /\ h_ret' = get_match_field(p4info, table_name, name, id)
    /\ h_fn' = "get_match_field"
    /\ h_pc' = "done"
    /\ UNCHANGED <<updates, sessionvars, pairvars>>

\* helper.get_action_param(action_name, name, id) is called.
call_get_action_param ==
    /\ h_pc = "ready"
    /\ \E p4info \in P4Infos, action_name \in ActionNames,
          name \in ParamNames, id \in ParamIds :
          /\ h_args' = [p4info |-> p4info, action_name |-> action_name,
                        name |-> name, id |-> id]
          /\ h_ret' = get_action_param(p4info, action_name, name, id)
    /\ h_fn' = "get_action_param"
    /\ h_pc' = "done"
    /\ UNCHANGED <<updates, sessionvars, pairvars>>

\* helper.get_match_field_pb(table_name, match_field_name, value) is called.
call_get_match_field_pb ==
    /\ h_pc = "ready"
    /\ \E p4info \in P4Infos, table_name \in TableNames, mv \in MatchInputs :
          /\ h_args' = [p4info |-> p4info, table_name |-> table_name,
                        match_field_name |-> mv[1], value |-> mv[2]]
          /\ h_ret' = get_match_field_pb(p4info, table_name, mv[1], mv[2])
    /\ h_fn' = "get_match_field_pb"
    /\ h_pc' = "done"
    /\ UNCHANGED <<updates, sessionvars, pairvars>>

\* helper.buildTableEntry(...) is called.
call_buildTableEntry ==
    /\ h_pc = "ready"
    /\ \E p4info \in P4Infos, table_name \in TableNames,
          match_fields \in MatchFieldDicts, action \in ActionInputs,
          o \in { <<FALSE, NonePriority>>, <<TRUE, 10>> } :
          /\ h_args' = [p4info |-> p4info, table_name |-> table_name,
                        match_fields |-> match_fields,
                        default_action |-> o[1],
                        action_name |-> action[1],
                        action_params |-> action[2], priority |-> o[2]]
          /\ h_ret' = buildTableEntry(p4info, table_name, match_fields, o[1],
                                      action[1], action[2], o[2])
    /\ h_fn' = "buildTableEntry"
    /\ h_pc' = "done"
    /\ UNCHANGED <<updates, sessionvars, pairvars>>

\* The table entry of p4ctl_add_entry, lines 608-615: the action_params are
\* made before buildTableEntry is called.
te_from(action_params, p4info, tbl_name, match_keys, action) ==
    IF ~action_params.ok THEN action_params
    ELSE buildTableEntry(p4info, tbl_name, match_keys, FALSE, action,
                         action_params.val, NonePriority)
te(p4info, tbl_name, match_keys, action, action_data) ==
    te_from(ActionParams(p4info, action, action_data), p4info, tbl_name, match_keys, action)

\* The Update of lines 617-619.
Update(entry) == [type |-> "INSERT", table_entry |-> entry]

\* p4ctl_add_entry, lines 597-619, from the P4Info that client.get_p4info
\* returned and what parse_flow made of the flow: the table entry is built
\* and, unless that raised, handed to client.write_update as an INSERT.
p4ctl_add_entry ==
    /\ h_pc = "ready"
    /\ \E p4info \in P4Infos, tbl_name \in TableNames, match_keys \in MatchKeyDicts,
          action \in ActionNames, action_data \in ActionData :
          /\ h_args' = [p4info |-> p4info, tbl_name |-> tbl_name,
                        match_keys |-> match_keys, action |-> action,
                        action_data |-> action_data]
          /\ h_ret' = te(p4info, tbl_name, match_keys, action, action_data)
    /\ updates' = IF h_ret'.ok THEN Append(updates, Update(h_ret'.val)) ELSE updates
    /\ h_fn' = "p4ctl_add_entry"
    /\ h_pc' = "done"
    /\ UNCHANGED <<sessionvars, pairvars>>

HelperInit ==
    /\ SessionInit
    /\ h_pc = "ready"
    /\ h_fn = "none"
    /\ h_args = NoArgs
    /\ h_ret = NoRet
    /\ updates = <<>>
    /\ PairIdle

HelperNext ==
    \/ call_encodeNum
    \/ call_decodeNum
    \/ call_encode
    \/ call_get
    \/ call_get_match_field
    \/ call_get_action_param
    \/ call_get_match_field_pb
    \/ call_buildTableEntry
    \/ p4ctl_add_entry

\* The helper functions called on their own, one call per behaviour.
HelperSpec == HelperInit /\ [][HelperNext]_vars

\* ================================== concurrent calls of get_stream_packet

\* Two threads that each call get_stream_packet once on the one session.
Threads == {1, 2}
\* A thread that has not called: the locals of get_stream_packet.
NoWaiter == [pc |-> "idle", type_ |-> "arbitration", timeout |-> 0, start |-> 0,
             deadline |-> 0, result |-> NoneMsg]
Pending == { t \in Threads : waiters[t].pc \in {"poll", "get"} }

\* Thread t calls get_stream_packet(type_, timeout), line 450, with a type
\* no other thread is or was waiting for.
get_stream_packet_call_by(t) ==
    /\ waiters[t].pc = "idle"
    /\ \E type_ \in Types, timeout \in 0..MaxWait :
          /\ \A u \in Threads \ {t} : waiters[u].pc # "idle" => waiters[u].type_ # type_
          /\ waiters' = [waiters EXCEPT ![t] = [NoWaiter EXCEPT !.pc = "poll",
                                                                !.type_ = type_,
                                                                !.timeout = timeout,
                                                                !.start = now]]
    /\ UNCHANGED <<taken, helpervars, sessionvars>>

\* Lines 453-456 in thread t.
get_stream_packet_poll_by(t) ==
    /\ waiters[t].pc = "poll"
    /\ LET w == waiters[t] IN
       IF remaining(w.timeout, w.start, now) < 0
         THEN waiters' = [waiters EXCEPT ![t].pc = "returned", ![t].result = NoneMsg]
         ELSE waiters' = [waiters EXCEPT ![t].pc = "get",
                            ![t].deadline = now + remaining(w.timeout, w.start, now)]
    /\ UNCHANGED <<taken, helpervars, sessionvars>>

\* get_stream_packet that goes on to the next message when the message
\* carries type_.
get_stream_packet_get_by_inverted(t) ==
    /\ waiters[t].pc = "get"
    /\ stream_in_q # <<>>
    /\ LET msg == Head(stream_in_q) IN
       /\ stream_in_q' = Tail(stream_in_q)
       /\ deq' = Append(deq, msg)
       /\ taken' = Append(taken, [id |-> msg.id, by |-> t, at |-> now, pending |-> Pending])
       /\ IF msg.tag = "None"
            THEN /\ waiters' = [waiters EXCEPT ![t].pc = "returned", ![t].result = NoneMsg]
                 /\ UNCHANGED returned
            ELSE IF HasField(msg, waiters[t].type_)
              THEN /\ waiters' = [waiters EXCEPT ![t].pc = "poll"]
                   /\ UNCHANGED returned
              ELSE /\ waiters' = [waiters EXCEPT ![t].pc = "returned", ![t].result = msg]
                   /\ returned' = returned \cup {msg.id}
    /\ UNCHANGED <<now, w_pc, w_type, w_timeout, w_start, w_deadline, w_from, w_result,
                   sessvars, stream_out_q, req_iter, sent, stream, stream_recv_thread,
                   nput, nmsgs, writevars, helpervars>>

\* Lines 456-461 in thread t: Queue.get hands the oldest item to the thread
\* that asks for it.
get_stream_packet_get_by(t) ==
    /\ waiters[t].pc = "get"
    /\ stream_in_q # <<>>
    /\ LET msg == Head(stream_in_q) IN
       /\ stream_in_q' = Tail(stream_in_q)
       /\ deq' = Append(deq, msg)
       /\ taken' = Append(taken, [id |-> msg.id, by |-> t, at |-> now, pending |-> Pending])
       /\ IF msg.tag = "None"
            THEN /\ waiters' = [waiters EXCEPT ![t].pc = "returned", ![t].result = NoneMsg]
                 /\ UNCHANGED returned
            ELSE IF ~HasField(msg, waiters[t].type_)
              THEN /\ waiters' = [waiters EXCEPT ![t].pc = "poll"]
                   /\ UNCHANGED returned
              ELSE /\ waiters' = [waiters EXCEPT ![t].pc = "returned", ![t].result = msg]
                   /\ returned' = returned \cup {msg.id}
    /\ UNCHANGED <<now, w_pc, w_type, w_timeout, w_start, w_deadline, w_from, w_result,
                   sessvars, stream_out_q, req_iter, sent, stream, stream_recv_thread,
                   nput, nmsgs, writevars, helpervars>>

\* Lines 462-464 in thread t.
get_stream_packet_empty_by(t) ==
    /\ waiters[t].pc = "get"
    /\ stream_in_q = <<>>
    /\ now >= waiters[t].deadline
    /\ waiters' = [waiters EXCEPT ![t].pc = "returned", ![t].result = NoneMsg]
    /\ UNCHANGED <<taken, helpervars, sessionvars>>

\* Time passes while a thread is blocked in Queue.get on an empty queue.
TickBlocked ==
    /\ stream_in_q = <<>>
    /\ \E t \in Threads : waiters[t].pc = "get" /\ now < waiters[t].deadline
    /\ now' = now + 1
    /\ UNCHANGED <<deq, w_pc, w_type, w_timeout, w_start, w_deadline, w_from,
                   w_result, returned, sessvars, streamvars, writevars, auxvars>>

\* The session after a handshake that made the client master at once, the
\* command running, and two threads about to call get_stream_packet.
WaitersInit ==
    /\ now = 0
    /\ main_pc = "in_f"
    /\ exc = "none"
    /\ client = TRUE
    /\ device_id \in DeviceIds
    /\ channel = "open"
    /\ stream_out_q = <<>>
    /\ stream_in_q = <<>>
    /\ req_iter = "running"
    /\ sent = <<ArbitrationRequest>>
    /\ stream = "open"
    /\ stream_recv_thread = "running"
    /\ nput = 1
    /\ nmsgs = 1
    /\ deq = << [id |-> 1, tag |-> "arbitration", code |-> "OK"] >>
    /\ w_pc = "idle"
    /\ w_type = "arbitration"
    /\ w_timeout = 0
    /\ w_start = 0
    /\ w_deadline = 0
    /\ w_from = 0
    /\ w_result = NoneMsg
    /\ returned = {1}
    /\ rep = [id |-> 1, tag |-> "arbitration", code |-> "OK"]
    /\ is_master = TRUE
    /\ ops = 0
    /\ rpcs = <<>>
    /\ grpc_error = NoGrpcError
    /\ it_pc = "none"
    /\ idx = 0
    /\ p4_error = NoError
    /\ errors = <<>>
    /\ wr_result = "none"
    /\ tear_downs = 0
    /\ channel_closes = 0
    /\ HelperIdle
    /\ waiters = [t \in Threads |-> NoWaiter]
    /\ taken = << [id |-> 1, by |-> 0, at |-> 0, pending |-> {}] >>

WaitersNext ==
    \/ \E t \in Threads : get_stream_packet_call_by(t)
    \/ \E t \in Threads : get_stream_packet_poll_by(t)
    \/ \E t \in Threads : get_stream_packet_get_by(t)
    \/ \E t \in Threads : get_stream_packet_empty_by(t)
    \/ TickBlocked
    \/ stream_recv
    \/ stream_recv_error
    \/ stream_recv_end

WaitersSpec == WaitersInit /\ [][WaitersNext]_vars

\* ============================================================== claims

Exited == main_pc = "exited"
StreamEstablished == stream # "none"
WriteFailed == wr_result \in {"RpcError", "P4RuntimeWriteException",
                              "P4RuntimeErrorFormatException"}

\* C1: once the stream has been established and the receiver started,
\* tear_down has run exactly once and the channel has been closed exactly
\* once by the time control leaves with_client, whatever the exit path.
C1_CloseOnEveryExit ==
    (Exited /\ StreamEstablished) => (tear_downs = 1 /\ channel_closes = 1)

\* The (index, p4.Error) pairs of the entries of a details list whose
\* canonical code is not OK, in list order.
NonOkItems(details) ==
    SelectSeq([i \in 1..Len(details) |-> <<i - 1, details[i]>>],
              LAMBDA v : v[2].canonical_code # "OK")

AllDecodable(details) == \A i \in 1..Len(details) : Unpack(details[i])

\* C2: a failed Write whose details all decode to per-item outcomes ends in
\* a P4RuntimeWriteException whose errors are exactly the non-OK items, each
\* with its index in the details list, in ascending order.
C2_WriteErrorListsNonOkItems ==
    [] ((main_pc = "write_error" /\ AllDecodable(grpc_error.details))
          => <> (/\ wr_result = "P4RuntimeWriteException"
                 /\ errors = NonOkItems(grpc_error.details)))

\* A structural anomaly of the detail of a failed Write handed to
\* P4RuntimeWriteException: no carrier, no entry, or an undecodable entry.
Anomalous(e) ==
    /\ IsWriteError(e)
    /\ \/ ~e.carrier
       \/ Len(e.details) = 0
       \/ ~AllDecodable(e.details)

\* C3: every structural anomaly of the detail of a failed Write ends in a
\* P4RuntimeErrorFormatException, never in success nor in a
\* P4RuntimeWriteException.
C3_AnomalyIsFormatError ==
    [] ((wr_result \notin {"none", "success"} /\ Anomalous(grpc_error))
          => <> (wr_result = "P4RuntimeErrorFormatException"))

\* C4 as stated: a failed Write that carries no detail carrier is raised as
\* the plain grpc.RpcError.
C4_NoDetailIsTransportError ==
    (WriteFailed /\ ~grpc_error.carrier) => wr_result = "RpcError"

\* C4 as amended: a failed Write whose status code is not UNKNOWN is raised
\* as the plain grpc.RpcError whether or not it carries detail, is never
\* turned into a P4RuntimeWriteException and is the last request of the
\* session; a failed Write with status UNKNOWN and no detail carrier is a
\* P4RuntimeErrorFormatException.
C4_NonUnknownIsTransportError ==
    /\ (WriteFailed /\ grpc_error.code # "UNKNOWN")
         => /\ wr_result = "RpcError"
            /\ exc = "RpcError"
            /\ errors = <<>>
            /\ main_pc \in {"finally", "join", "exited"}
            /\ rpcs[Len(rpcs)].rpc = "Write"
    /\ (WriteFailed /\ grpc_error.code = "UNKNOWN" /\ ~grpc_error.carrier)
         => wr_result = "P4RuntimeErrorFormatException"
    /\ wr_result = "RpcError" => grpc_error.code # "UNKNOWN"

C4_Witness ==
    /\ wr_result = "RpcError"
    /\ grpc_error.code = "UNAVAILABLE"
    /\ grpc_error.carrier
    /\ Len(grpc_error.details) > 0
    /\ Exited

\* Everything ever put on stream_in_q, in the order it was put.
AllPut == deq \o stream_in_q

\* C5: get_stream_packet consumes stream_in_q in FIFO order; it returns the
\* first dequeued message that carries type_ and every message dequeued
\* before it does not carry type_ and is gone for good; it returns None when
\* it dequeues None first or when the timeout elapses; what is behind the
\* returned message stays queued.
C5_FifoDiscardOnMismatch ==
    /\ \A i \in 1..Len(AllPut) : AllPut[i].id = i
    /\ returned \subseteq { deq[i].id : i \in 1..Len(deq) }
    /\ (w_pc = "returned" /\ w_result # NoneMsg)
         => /\ Len(deq) > w_from
            /\ w_result = deq[Len(deq)]
            /\ w_result.tag = w_type
            /\ w_result.id \in returned
            /\ \A i \in (w_from + 1)..(Len(deq) - 1) :
                  /\ deq[i].tag \notin {w_type, "None"}
                  /\ deq[i].id \notin returned
    /\ (w_pc = "returned" /\ w_result = NoneMsg)
         => /\ \A i \in (w_from + 1)..Len(deq) :
                  /\ deq[i].tag # w_type
                  /\ deq[i].id \notin returned
            /\ \/ Len(deq) > w_from /\ deq[Len(deq)].tag = "None"
               \/ now >= w_start + w_timeout

C5_Witness ==
    /\ w_pc = "returned"
    /\ w_result # NoneMsg
    /\ Len(deq) >= w_from + 2
    /\ stream_in_q # <<>>

\* C6: get_stream_packet returns no later than start + timeout, and every
\* Queue.get it blocks in expires at start + timeout, however many
\* messages it has dequeued and discarded meanwhile.
C6_DeadlineFixedAtStart ==
    /\ w_pc = "get" => w_deadline = w_start + w_timeout
    /\ w_pc \in {"poll", "get", "returned"} => now <= w_start + w_timeout

C6_Witness ==
    /\ w_pc = "returned"
    /\ w_result = NoneMsg
    /\ Len(deq) > w_from
    /\ deq[Len(deq)].tag # "None"
    /\ w_timeout > 0
    /\ now = w_start + w_timeout

Sentinels == { i \in 1..Len(AllPut) : AllPut[i].tag = "None" }

\* C7 as stated: when the receiver thread has ended, for either reason,
\* exactly one None has been put on stream_in_q and it is the last item put.
C7_SentinelOnEveryTermination ==
    stream_recv_thread = "terminated"
      => /\ Cardinality(Sentinels) = 1
         /\ AllPut[Len(AllPut)].tag = "None"

\* C7 as amended: when the receiver ends on a transport failure exactly one
\* None has been put on stream_in_q, as the last item; when it ends because
\* the stream ended nothing is put; a get_stream_packet that dequeues the
\* None returns None, and every pending get_stream_packet returns.
C7_SentinelOnTransportFailure ==
    /\ [] /\ (stream_recv_thread = "terminated" /\ stream = "failed")
               => /\ Cardinality(Sentinels) = 1
                  /\ AllPut[Len(AllPut)].tag = "None"
          /\ (stream_recv_thread = "terminated" /\ stream = "ended")
               => Sentinels = {}
          /\ stream_recv_thread # "terminated" => Sentinels = {}
          /\ (w_pc = "returned" /\ Len(deq) > w_from /\ deq[Len(deq)].tag = "None")
               => w_result = NoneMsg
    /\ (w_pc \in {"poll", "get"}) ~> (w_pc = "returned")

C7_Witness ==
    /\ stream = "failed"
    /\ w_pc = "returned"
    /\ w_result = NoneMsg
    /\ Len(deq) > w_from + 1
    /\ deq[Len(deq)].tag = "None"
    /\ now < w_start + w_timeout

\* C8: when get_stream_packet returns None to handshake the process exits:
\* `client` is never bound and no request of the session is ever made;
\* when it returns None to a command the session stays usable.
C8_ArbitrationTimeoutIsFatal ==
    /\ [] /\ (StreamEstablished /\ main_pc # "handshake" /\ rep = NoneMsg)
               => /\ exc = "SystemExit"
                  /\ ~client
                  /\ ops = 0
                  /\ rpcs = <<>>
                  /\ main_pc \in {"finally", "exited"}
          /\ (main_pc = "f_wait" /\ w_pc = "returned") => (client /\ exc = "none")
    /\ [][(main_pc = "f_wait" /\ w_pc = "returned" /\ main_pc' # "f_wait")
            => (main_pc' = "in_f" /\ exc' = "none" /\ client')]_vars

C8_Witness ==
    /\ exc = "SystemExit"
    /\ Exited
    /\ rep = NoneMsg
    /\ ~client
    /\ deq = <<>>

Active == main_pc \in {"in_f", "f_wait", "write_error"}

\* C9: the session is active only after the arbitration request was put on
\* stream_out_q and an arbitration reply was returned to handshake; it is
\* master exactly when the reply's status code is OK; a slave session is
\* active all the same and its Write is handed to the stub.
C9_ActiveAfterArbitration ==
    /\ Active
         => /\ client
            /\ \/ \E i \in 1..Len(sent) : sent[i] = ArbitrationRequest
               \/ \E i \in 1..Len(stream_out_q) : stream_out_q[i] = ArbitrationRequest
            /\ rep.tag = "arbitration"
            /\ rep.id \in returned
            /\ is_master <=> (rep.code = "OK")
    /\ (Active /\ main_pc = "in_f" /\ ops < MaxOps) => ENABLED write_update

C9_Witness ==
    /\ Active
    /\ ~is_master
    /\ rep.code = "ALREADY_EXISTS"
    /\ \E i \in 1..Len(rpcs) : rpcs[i].rpc = "Write"

\* C10: once a Write of an established session has failed, tear_down
\* completes: None is put on stream_out_q, stream_req_iterator ends, the
\* receiver thread ends and the channel is closed.
C10_CloseAfterFailedWrite ==
    (client /\ WriteFailed)
      ~> /\ tear_downs = 1
         /\ req_iter = "ended"
         /\ stream_out_q = <<>>
         /\ stream_recv_thread = "terminated"
         /\ channel = "closed"
         /\ channel_closes = 1
         /\ Exited

C10_Witness ==
    /\ client
    /\ WriteFailed
    /\ req_iter = "ended"
    /\ stream = "ended"
    /\ channel = "closed"
    /\ Exited

Called(fn) == h_pc = "done" /\ h_fn = fn

\* The least k with 8 * k >= bitwidth.
CeilDiv8(bitwidth) == CHOOSE k \in 0..bitwidth : 8 * k >= bitwidth /\ 8 * (k - 1) < bitwidth

\* C11: for 0 <= v < 2^b, encodeNum(v, b) returns ceil(b/8) bytes that are
\* the big-endian, zero-padded digits of v in base 256, and decodeNum gives
\* v back.
C11_EncodeNumRoundTrip ==
    /\ (Called("encodeNum") /\ h_args.number < 2 ^ h_args.bitwidth)
         => /\ h_ret.ok
            /\ Len(h_ret.val) = CeilDiv8(h_args.bitwidth)
            /\ \A i \in 1..Len(h_ret.val) :
                  h_ret.val[i] = (h_args.number \div (256 ^ (Len(h_ret.val) - i))) % 256
    /\ Called("decodeNum")
         => /\ Len(h_args.encoded_number) = CeilDiv8(h_args.bitwidth)
            /\ h_ret.val = h_args.number

C11_Witness ==
    /\ Called("decodeNum")
    /\ h_args.bitwidth = 9
    /\ h_args.number = 257
    /\ h_args.encoded_number = <<1, 1>>
    /\ h_ret.val = 257

\* C12: encodeNum(v, b) raises exactly when v >= 2^b.
C12_EncodeNumFailsIffTooWide ==
    Called("encodeNum")
      => /\ ~h_ret.ok <=> h_args.number >= 2 ^ h_args.bitwidth
         /\ ~h_ret.ok => h_ret.err = "Exception"

C12_Witness ==
    /\ Called("encodeNum")
    /\ h_args.number = 2 ^ h_args.bitwidth
    /\ h_args.bitwidth = 4
    /\ ~h_ret.ok

\* C13: whatever encode returns has exactly ceil(bitwidth/8) elements.
C13_EncodeLength ==
    (Called("encode") /\ h_ret.ok) => Len(h_ret.val) = CeilDiv8(h_args.bitwidth)

C13_Witness ==
    /\ Called("encode")
    /\ h_ret.ok
    /\ h_args.x.s = MacText
    /\ h_args.x.wrap = "list"
    /\ h_ret.val = <<170, 187, 204, 221, 238, 255>>

\* C14: get(entity_type, name, id) raises AssertionError both when name and
\* id are given together and when neither is given; given exactly one it
\* returns the first entity whose name or alias is the name, or whose id is
\* the id, and raises AttributeError when there is none.
C14_ResolveRequiresExactlyOne ==
    Called("get")
      => LET coll == Entities(h_args.p4info, h_args.entity_type)
             by_name == h_args.name # NoneName
             by_id == h_args.id # NoneId
             found == { i \in 1..Len(coll) :
                          \/ by_name /\ h_args.name \in {coll[i].preamble.name,
                                                         coll[i].preamble.alias}
                          \/ by_id /\ h_args.id = coll[i].preamble.id }
         IN  IF by_name = by_id
               THEN ~h_ret.ok /\ h_ret.err = "AssertionError"
             ELSE IF found = {}
               THEN ~h_ret.ok /\ h_ret.err = "AttributeError"
             ELSE h_ret.ok /\ \E i \in found : h_ret.val = coll[i]

\* The match fields of the tables called table_name, and the params of the
\* actions called action_name, that the name, or else the id, selects.
FieldsOf(p4info, table_name, name, id) ==
    { mf \in UNION { { t.match_fields[j] : j \in 1..Len(t.match_fields) } :
                       t \in { p4info.tables[i] : i \in { k \in 1..Len(p4info.tables) :
                                  p4info.tables[k].preamble.name = table_name } } } :
        IF name # NoneName THEN mf.name = name ELSE id # NoneId /\ mf.id = id }
ParamsOf(p4info, action_name, name, id) ==
    { p \in UNION { { a.params[j] : j \in 1..Len(a.params) } :
                      a \in { p4info.actions[i] : i \in { k \in 1..Len(p4info.actions) :
                                 p4info.actions[k].preamble.name = action_name } } } :
        IF name # NoneName THEN p.name = name ELSE id # NoneId /\ p.id = id }

\* C15: for every schema, get_match_field returns a match field of the named
\* table that has the given name (or else id) and raises AttributeError when
\* the table is absent or has no such field; get_action_param does the same
\* for the params of the named action; neither raises anything else.
C15_LookupNotFound ==
    /\ Called("get_match_field")
         => LET fs == FieldsOf(h_args.p4info, h_args.table_name, h_args.name, h_args.id)
            IN  IF fs = {} THEN ~h_ret.ok /\ h_ret.err = "AttributeError"
                ELSE h_ret.ok /\ h_ret.val \in fs
    /\ Called("get_action_param")
         => LET ps == ParamsOf(h_args.p4info, h_args.action_name, h_args.name, h_args.id)
            IN  IF ps = {} THEN ~h_ret.ok /\ h_ret.err = "AttributeError"
                ELSE h_ret.ok /\ h_ret.val \in ps

\* The variant get_match_field_pb is to set for a match_type.
VariantOf(match_type) ==
    CASE match_type = "EXACT" -> "exact"
      [] match_type = "LPM" -> "lpm"
      [] match_type = "TERNARY" -> "ternary"
      [] match_type = "RANGE" -> "range"
      [] OTHER -> "none"

SomeStepFails(p4info, table_name, match_fields, action_name, action_params) ==
    \/ ~get(p4info, "tables", table_name, NoneId).ok
    \/ \E i \in 1..Len(match_fields) :
          ~get_match_field_pb(p4info, table_name, match_fields[i][1], match_fields[i][2]).ok
    \/ /\ Truthy(action_name)
       /\ \/ ~get(p4info, "actions", action_name, NoneId).ok
          \/ \E i \in 1..Len(action_params) :
                ~get_action_param_pb(p4info, action_name,
                                     action_params[i][1], action_params[i][2]).ok

\* A table entry that has the table, every match field and, with an action,
\* every param asked for.
Complete(entry, match_fields, action_name, nparams) ==
    /\ entry.table_id # 0
    /\ Len(entry.match) = Len(match_fields)
    /\ Truthy(action_name)
         => entry.action.action_id # 0 /\ Len(entry.action.params) = nparams

\* C17: buildTableEntry raises, and returns no table entry, whenever
\* resolving the table, a match field, the action or a param, or encoding a
\* value, fails, and what it returns is complete; p4ctl_add_entry hands one
\* INSERT of the complete entry to write_update when the entry was built and
\* nothing when it was not.
C17_BuildTableEntryAllOrNothing ==
    /\ Called("buildTableEntry")
         => /\ SomeStepFails(h_args.p4info, h_args.table_name, h_args.match_fields,
                             h_args.action_name, h_args.action_params)
                 <=> ~h_ret.ok
            /\ ~h_ret.ok => h_ret.val = <<>>
            /\ h_ret.ok => Complete(h_ret.val, h_args.match_fields, h_args.action_name,
                                    Len(h_args.action_params))
            /\ updates = <<>>
    /\ Called("p4ctl_add_entry")
         => /\ ~h_ret.ok => updates = <<>>
            /\ h_ret.ok
                 => /\ updates = << Update(h_ret.val) >>
                    /\ Complete(h_ret.val, h_args.match_keys, h_args.action,
                                Len(get_action_params(h_args.p4info, h_args.action).val))
            /\ (\E i \in 1..Len(h_args.match_keys) :
                   ~get_match_field_pb(h_args.p4info, h_args.tbl_name,
                                       h_args.match_keys[i][1], h_args.match_keys[i][2]).ok)
                 => ~h_ret.ok

C17_Witness ==
    /\ Called("p4ctl_add_entry")
    /\ h_args.tbl_name = "ingress.t1"
    /\ h_args.action = "ingress.fwd"
    /\ h_args.action_data = <<1, 2>>
    /\ h_args.match_keys = << <<"ipv4.dst", Text(IPv4Text)>>, <<"nosuch", Text(IPv4Text)>> >>
    /\ Len(h_args.p4info.tables) > 0
    /\ Len(h_args.p4info.actions) > 0
    /\ ~h_ret.ok
    /\ h_ret.err = "AttributeError"
    /\ updates = <<>>

\* p4ctl_add_entry has written an entry.
EntryWritten ==
    Called("p4ctl_add_entry") /\ h_ret.ok /\ Len(updates) = 1

\* The P4Info messages that well-formed texts parse to.
ParsedSchemas == { [tables |-> t, actions |-> a] : t \in 0..2, a \in 0..2 }
                   \ { [tables |-> 0, actions |-> 0] }

\* C18: the call of set_fwd_pipe_config that raises ParseError hands no
\* request to the stub and ends the command with that exception; every
\* SetForwardingPipelineConfig request is handed over alone, has action
\* VERIFY_AND_COMMIT and carries a parsed P4Info and the bytes of the
\* device config.
C18_ParseFailureSendsNothing ==
    /\ [][ /\ (exc' = "ParseError" /\ exc # "ParseError")
               => /\ rpcs' = rpcs
                  /\ ops' = ops + 1
                  /\ main_pc' = "finally"
           /\ (Len(rpcs') > Len(rpcs) /\ rpcs'[Len(rpcs')].rpc = "SetForwardingPipelineConfig")
               => /\ rpcs' = Append(rpcs, rpcs'[Len(rpcs')])
                  /\ rpcs'[Len(rpcs')].action = "VERIFY_AND_COMMIT"
                  /\ rpcs'[Len(rpcs')].config.p4info \in ParsedSchemas
                  /\ rpcs'[Len(rpcs')].config.p4_device_config = DeviceConfig
                  /\ exc' # "ParseError" ]_vars
    /\ [] (exc = "ParseError"
             => /\ main_pc \in {"finally", "join", "exited"}
                /\ Len(rpcs) < ops)

C18_Witness ==
    /\ exc = "ParseError"
    /\ ops = 1
    /\ rpcs = <<>>
    /\ channel = "closed"
    /\ Exited

\* A SetForwardingPipelineConfig request has been sent.
PipelineSent ==
    /\ Len(rpcs) = 1
    /\ rpcs[1] = [rpc |-> "SetForwardingPipelineConfig", device_id |-> 7,
                  election_id |-> <<1, 0>>, action |-> "VERIFY_AND_COMMIT",
                  config |-> [p4info |-> [tables |-> 1, actions |-> 1],
                              p4_device_config |-> <<1, 2>>]]
    /\ exc = "none"
    /\ Exited

\* The state of the session of a P4RuntimeClient.
Lifecycle ==
    CASE channel = "closed" -> "Closed"
      [] channel # "closed" /\ main_pc = "join" -> "Closing"
      [] channel # "closed" /\ main_pc # "join" /\ client -> "Active"
      [] channel = "open" /\ ~client /\ stream # "none" -> "Arbitrating"
      [] channel = "open" /\ ~client /\ stream = "none" -> "Connecting"
      [] OTHER -> "Disconnected"
Rank(state) ==
    CASE state = "Disconnected" -> 0
      [] state = "Connecting" -> 1
      [] state = "Arbitrating" -> 2
      [] state = "Active" -> 3
      [] state = "Closing" -> 4
      [] state = "Closed" -> 5

\* C19: every step leaves the session in its state or moves it to the next
\* one of Disconnected, Connecting, Arbitrating, Active, Closing, Closed;
\* once Closed, nothing is put on stream_out_q or stream_in_q, no request is
\* handed to the stub, and the stream, the receiver thread and the channel
\* stay as they are.
C19_LifecycleMovesForward ==
    /\ [][ Rank(Lifecycle') \in {Rank(Lifecycle), Rank(Lifecycle) + 1} ]_vars
    /\ [][ Lifecycle = "Closed"
             => /\ Lifecycle' = "Closed"
                /\ stream_out_q' \in {stream_out_q, Tail(stream_out_q)}
                /\ UNCHANGED <<stream_in_q, nput, rpcs, stream, stream_recv_thread,
                               channel, channel_closes, tear_downs, client>> ]_vars

C19_Witness ==
    /\ Lifecycle = "Closed"
    /\ Exited
    /\ is_master
    /\ Len(rpcs) = 1
    /\ stream_recv_thread = "terminated"
    /\ stream_out_q # <<>>

\* C20: a thread in get_stream_packet never discards a message that carries
\* its type_: such a message, once the thread has dequeued it, is what the
\* thread returns; so a thread that returns None while a message of its
\* type_ was dequeued during its call has lost it to the other thread, and
\* with the other thread not calling nothing of its type_ is lost.
C20_LossOnlyToOtherWaiter ==
    /\ Len(taken) = Len(deq)
    /\ \A k \in 1..Len(taken) : taken[k].id = deq[k].id
    /\ \A t \in Threads :
          /\ \A k \in 1..Len(taken) :
                (taken[k].by = t /\ deq[k].tag = waiters[t].type_)
                  => /\ waiters[t].pc = "returned"
                     /\ waiters[t].result = deq[k]
                     /\ k = Len(taken) \/ taken[k + 1].by # t
          /\ (waiters[t].pc = "returned" /\ waiters[t].result # NoneMsg)
                => /\ waiters[t].result.tag = waiters[t].type_
                   /\ \E k \in 1..Len(taken) : taken[k].by = t /\ deq[k] = waiters[t].result
          /\ (waiters[t].pc = "returned" /\ waiters[t].result = NoneMsg)
                => \A k \in 1..Len(taken) :
                      (t \in taken[k].pending /\ deq[k].tag = waiters[t].type_)
                        => taken[k].by \in Threads \ {t}
          /\ (waiters[t].pc = "returned" /\ \A k \in 1..Len(taken) : taken[k].by \in {0, t})
                => \/ waiters[t].result # NoneMsg
                   \/ \A k \in 1..Len(taken) :
                         t \in taken[k].pending => deq[k].tag # waiters[t].type_

\* The message of the second waiter is dequeued and discarded by the first
\* while the second is waiting, before its deadline; the second returns None.
C20_Witness ==
    /\ waiters[2].pc = "returned"
    /\ waiters[2].result = NoneMsg
    /\ waiters[1].type_ # waiters[2].type_
    /\ \A k \in 1..Len(deq) : deq[k].tag # "None"
    /\ \E k \in 1..Len(taken) :
          /\ taken[k].by = 1
          /\ 2 \in taken[k].pending
          /\ deq[k].tag = waiters[2].type_
          /\ taken[k].at <= waiters[2].start + waiters[2].timeout
          /\ deq[k].id \notin returned

\* The requests that carry an election id: arbitration on the stream, Write
\* and SetForwardingPipelineConfig on the stub.
CarriesSessionIds(req) ==
    /\ req.device_id = device_id
    /\ req.election_id = election_id

\* C21: every arbitration request put on the stream, every Write request
\* (from write and from write_update) and every SetForwardingPipelineConfig
\* request carries the device id and the election id the client was
\* constructed with, which never change afterwards; a device id or election
\* id the caller had set on the request handed to write is overwritten.
C21_RequestsCarrySessionIds ==
    /\ [] /\ \A i \in 1..Len(sent) : CarriesSessionIds(sent[i])
          /\ \A i \in 1..Len(stream_out_q) :
                stream_out_q[i].tag = "arbitration" => CarriesSessionIds(stream_out_q[i])
          /\ \A i \in 1..Len(rpcs) :
                rpcs[i].rpc \in {"Write", "SetForwardingPipelineConfig"}
                  => CarriesSessionIds(rpcs[i])
    /\ [][main_pc # "start" => device_id' = device_id]_vars

\* write has sent the request on which the caller had set device id 9 and
\* election id (2, 3), after the arbitration request went out.
C21_Witness ==
    /\ \E i \in 1..Len(sent) : sent[i].tag = "arbitration"
    /\ \E i \in 1..Len(rpcs) :
          /\ rpcs[i].rpc = "Write"
          /\ rpcs[i].updates = <<"INSERT", "DELETE">>
          /\ rpcs[i].device_id = 7
          /\ rpcs[i].election_id = <<1, 0>>

\* C22: decoding the details of a failed Write terminates for every finite
\* details list: each entry examined by __next__, a skipped OK entry
\* included, strictly advances idx, so the construction of the
\* P4RuntimeWriteException always ends.
C22_DecodingTerminates ==
    /\ (main_pc = "write_error") ~> (main_pc # "write_error")
    /\ [][(main_pc = "write_error" /\ it_pc = "unpacked" /\ it_pc' = "loop")
            => idx' = idx + 1]_vars

\* The primary name of the entity that get resolves a name to; the name
\* itself when get resolves it to nothing.
PrimaryName(p4info, entity_type, name) ==
    IF get(p4info, entity_type, name, NoneId).ok
      THEN get(p4info, entity_type, name, NoneId).val.preamble.name
      ELSE name

\* C23: a table name that get accepts, primary name or alias, is accepted as
\* that table by get_match_field and get_match_field_pb, and an action name
\* that get accepts is accepted by get_action_param, so that buildTableEntry
\* gives for a table or an action referenced by its alias what it gives for
\* the primary name.
C23_AliasAsPrimaryName ==
    /\ Called("get_match_field")
         => h_ret = get_match_field(h_args.p4info,
                       PrimaryName(h_args.p4info, "tables", h_args.table_name),
                       h_args.name, h_args.id)
    /\ Called("get_match_field_pb")
         => h_ret = get_match_field_pb(h_args.p4info,
                       PrimaryName(h_args.p4info, "tables", h_args.table_name),
                       h_args.match_field_name, h_args.value)
    /\ Called("get_action_param")
         => h_ret = get_action_param(h_args.p4info,
                       PrimaryName(h_args.p4info, "actions", h_args.action_name),
                       h_args.name, h_args.id)
    /\ Called("buildTableEntry")
         => h_ret = buildTableEntry(h_args.p4info,
                       PrimaryName(h_args.p4info, "tables", h_args.table_name),
                       h_args.match_fields, h_args.default_action,
                       PrimaryName(h_args.p4info, "actions", h_args.action_name),
                       h_args.action_params, h_args.priority)

====
